---- MODULE Spec2Model ----
(***************************************************************************)
(* The autoplotter of velociraptor-python                                  *)
(* (src/velociraptor/autoplotter/objects.py): VelociraptorPlot turns one   *)
(* entry of the yaml configuration into a plot descriptor, AutoPlotter     *)
(* builds one descriptor per entry and create_plots renders them in turn.  *)
(*                                                                         *)
(* Python values are modelled as follows.                                  *)
(*   - an optional value (a key that may be absent from a mapping, an      *)
(*     attribute that may be None or not set) is a sequence of length 0    *)
(*     or 1;                                                               *)
(*   - a number is a record [k, n, d]: k = "rat" is the rational n/d in    *)
(*     lowest terms, k = "pow10" is 10^(n/d) for a non-integer n/d,        *)
(*     k = "nan" is IEEE NaN and k = "ninf" is -infinity;                  *)
(*   - a unyt_quantity is [v |-> number, units |-> unit name];             *)
(*   - a unyt_array is [values |-> sequence of numbers, units |-> name].   *)
(* Floating-point rounding is not modelled: arithmetic is exact.           *)
(***************************************************************************)
EXTENDS Integers, Sequences, FiniteSets, TLC

\* ------------------------------------------------------------------ bounds

\* The largest number of entries of a configuration that is enumerated.
MaxEntries == 2

\* The largest explicit number_of_bins of the enumerated configurations.
MaxBins == 5

\* How many times create_plots may be called on one AutoPlotter.
MaxRuns == 2

\* ------------------------------------------------------------- constants

valid_plot_types == <<"scatter", "2dhistogram", "massfunction">>

valid_line_types == <<"median", "mean">>

\* The number of bins when the configuration gives none.
DefaultNumberOfBins == 128

SeqToSet(s) == {s[i] : i \in DOMAIN s}

\* ------------------------------------------------------------- numbers

Abs(i) == IF i < 0 THEN -i ELSE i

RECURSIVE Gcd(_, _)
Gcd(a, b) == IF b = 0 THEN a ELSE Gcd(b, a % b)

\* The rational n/d (d # 0) in lowest terms with a positive denominator.
Rat(n, d) ==
    LET g == Gcd(Abs(n), Abs(d))
        s == IF d < 0 THEN -1 ELSE 1
    IN  [k |-> "rat", n |-> (s * n) \div g, d |-> (s * d) \div g]

NaN == [k |-> "nan", n |-> 0, d |-> 1]

NegInf == [k |-> "ninf", n |-> 0, d |-> 1]

IsFinite(a) == a.k = "rat"

\* float(v) of an integer of the configuration.
Float(v) == Rat(v, 1)

RECURSIVE IntPow10(_)
IntPow10(e) == IF e = 0 THEN 1 ELSE 10 * IntPow10(e - 1)

\* 10^e as a rational, for an integer e.
Pow10Rat(e) == IF e >= 0 THEN Rat(IntPow10(e), 1) ELSE Rat(1, IntPow10(-e))

\* numpy.log10 of a float: -inf at zero and NaN below it (a RuntimeWarning,
\* not an exception).  The positive numbers of the model are powers of
\* ten, where the logarithm is an integer.
Log10(a) ==
    IF ~IsFinite(a) THEN NaN
    ELSE IF a.n = 0 THEN NegInf
    ELSE IF a.n < 0 THEN NaN
    ELSE Rat(CHOOSE e \in -6..6 : Pow10Rat(e) = a, 1)

\* numpy.power(10, a): a rational for an integer exponent, the symbolic
\* 10^(n/d) otherwise.
Power10(a) ==
    IF ~IsFinite(a) THEN NaN
    ELSE IF a.d = 1 THEN Pow10Rat(a.n)
    ELSE [k |-> "pow10", n |-> a.n, d |-> a.d]

\* numpy.linspace(start, stop, num) with endpoint=True: num samples,
\* start + i * (stop - start) / (num - 1) for i = 0 .. num-1, the last one
\* set to stop when num > 1.  A NaN or infinite bound makes every computed
\* sample NaN.
linspace(start, stop, num) ==
    [i \in 1..num |->
        IF i = num /\ num > 1 THEN stop
        ELSE IF IsFinite(start) /\ IsFinite(stop)
             THEN IF num = 1 THEN start
                  ELSE Rat(start.n * stop.d * (num - 1)
                             + (i - 1) * (stop.n * start.d - start.n * stop.d),
                           start.d * stop.d * (num - 1))
        ELSE NaN]

\* numpy.logspace(start, stop, num) = 10 ** linspace(start, stop, num).
logspace(start, stop, num) ==
    LET y == linspace(start, stop, num)
    IN  [i \in 1..num |-> Power10(y[i])]

\* ---------------------------------------------------------------- units

\* The power of ten that converts a value in unit u to unit t.
FactorExp(u, t) ==
    IF u = t THEN 0
    ELSE IF u = "kpc" /\ t = "Mpc" THEN -3
    ELSE IF u = "Mpc" /\ t = "kpc" THEN 3
    ELSE 0

\* The number a times 10^e.
Scale(a, e) ==
    IF a.k = "rat" THEN
        IF e >= 0 THEN Rat(a.n * IntPow10(e), a.d) ELSE Rat(a.n, a.d * IntPow10(-e))
    ELSE IF a.k = "pow10" THEN [k |-> "pow10", n |-> a.n + e * a.d, d |-> a.d]
    ELSE a

\* unyt_quantity(v, units=u).
unyt_quantity(v, u) == [v |-> v, units |-> u]

\* unyt_array(values, units=u).
unyt_array(values, u) == [values |-> values, units |-> u]

\* unyt_array.convert_to_units(t), in place: every value is rescaled and
\* the array's unit becomes t.
convert_to_units(arr, t) ==
    [values |-> [i \in DOMAIN arr.values |-> Scale(arr.values[i], FactorExp(arr.units, t))],
     units |-> t]

\* ------------------------------------------------------------ optionals

None == <<>>

Some(v) == <<v>>

IsSome(o) == Len(o) = 1

Get(o) == o[1]

\* ------------------------------------------------- the yaml configuration

\* One axis block of an entry (the mapping under "x" or "y"): every key is
\* optional.
AxisBlock(q, u, lg, s, e, lab) ==
    [quantity |-> q, units |-> u, log |-> lg, start |-> s, end |-> e,
     label_override |-> lab]

\* One entry of the configuration: every key is optional.
Entry(t, n, x, y, median, mean) ==
    [type |-> t, number_of_bins |-> n, x |-> x, y |-> y,
     median |-> median, mean |-> mean]

\* The yaml scalars given for "log", and bool() of each.
LogScalars == {"true", "false", "0"}

\* The scalars that go with every combination of start and end.
LogChoices == {None, Some("true"), Some("false")}

bool(v) == v = "true"

\* The optional values of one key.
Opt(S) == {None} \cup {Some(v) : v \in S}

\* Axis blocks that give quantity and units, with every combination of
\* log, start and end.
FullBlocks(q, u) ==
    {AxisBlock(Some(q), Some(u), lg, s, e, None) :
        lg \in LogChoices, s \in Opt({0, 1}), e \in Opt({10, 100})}

\* Axis blocks that lack quantity, units or both, one with a negative
\* start, one with log: 0 and one with a label.
PartBlocks(q, u) ==
    {AxisBlock(None, Some(u), None, Some(1), Some(100), None),
     AxisBlock(Some(q), None, None, Some(1), Some(100), None),
     AxisBlock(None, None, Some("false"), None, None, None),
     AxisBlock(Some(q), Some(u), None, Some(-1), Some(10), None),
     AxisBlock(Some(q), Some(u), Some("0"), Some(1), Some(100), None),
     AxisBlock(Some(q), Some(u), Some("false"), Some(0), Some(10), Some("label"))}

\* The x axes are in kpc and the y axes in Mpc.
XQuantity == "masses.mass_200crit"

YQuantity == "radii.r_200crit"

XBlocks == Opt(FullBlocks(XQuantity, "kpc") \cup PartBlocks(XQuantity, "kpc"))

YBlocks == Opt(FullBlocks(YQuantity, "Mpc") \cup PartBlocks(YQuantity, "Mpc"))

\* A linear and a logarithmic axis with both limits.
LinearBlock(q, u) == AxisBlock(Some(q), Some(u), Some("false"), Some(0), Some(10), None)

LogBlock(q, u) == AxisBlock(Some(q), Some(u), None, Some(1), Some(100), None)

\* A few blocks of each axis, paired with every block of the other axis.
XFew == {None, Some(LinearBlock(XQuantity, "kpc")), Some(LogBlock(XQuantity, "kpc"))}

YFew ==
    {None, Some(LinearBlock(YQuantity, "Mpc")),
     Some(AxisBlock(None, None, None, Some(1), Some(100), None))}

PlotTypes == {"scatter", "2dhistogram", "massfunction", "histogram"}

BinnedTypes == {"2dhistogram", "massfunction", "histogram"}

\* The pairs of type and number_of_bins that go with every axis block.
TypeAndBins ==
    {<<None, None>>, <<Some("scatter"), None>>, <<Some("histogram"), Some(2)>>,
     <<Some("2dhistogram"), Some(3)>>, <<Some("massfunction"), Some(3)>>,
     <<Some("massfunction"), None>>}

LinePayloads == Opt({"line"})

\* The entries a configuration of one entry is drawn from: every axis
\* block on one axis with a few on the other, every bin count with a few
\* axes, and every combination of overlay lines.
Entries ==
    {Entry(tn[1], tn[2], x, y, None, None) :
        tn \in TypeAndBins, x \in XBlocks, y \in YFew}
    \cup
    {Entry(tn[1], tn[2], x, y, None, None) :
        tn \in TypeAndBins, x \in XFew, y \in YBlocks}
    \cup
    {Entry(Some(t), Some(n), x, y, None, None) :
        t \in BinnedTypes, n \in 1..MaxBins, x \in XFew, y \in YFew}
    \cup
    {Entry(t, None, x, y, median, mean) :
        t \in Opt({"scatter"}), x \in XFew, y \in YFew,
        median \in LinePayloads, mean \in LinePayloads}

\* The entries a configuration of several entries is drawn from: three
\* that resolve, and four that do not or whose bins are unusable.
Companions ==
    {Entry(None, None, Some(LogBlock(XQuantity, "kpc")),
           Some(LogBlock(YQuantity, "Mpc")), Some("line"), None),
     Entry(Some("massfunction"), Some(3), Some(LogBlock(XQuantity, "kpc")),
           None, None, None),
     Entry(Some("2dhistogram"), Some(2), Some(LinearBlock(XQuantity, "kpc")),
           Some(LinearBlock(YQuantity, "Mpc")), None, None),
     Entry(Some("scatter"), None,
           Some(AxisBlock(None, Some("kpc"), None, None, None, None)),
           Some(LogBlock(YQuantity, "Mpc")), None, None),
     Entry(Some("histogram"), Some(2), Some(LogBlock(XQuantity, "kpc")),
           None, None, None),
     Entry(Some("massfunction"), Some(2),
           Some(AxisBlock(Some(XQuantity), Some("kpc"), None, Some(1), None, None)),
           None, None, None),
     Entry(Some("2dhistogram"), Some(2),
           Some(AxisBlock(Some(XQuantity), Some("kpc"), None, Some(0), Some(10), None)),
           Some(LinearBlock(YQuantity, "Mpc")), None, None)}

\* The keys of a configuration, in declaration order.
Names == <<"plot_a", "plot_b", "plot_c", "plot_d">>

\* A configuration is the sequence of its (key, entry) items, as
\* dict.items() yields them: the keys are distinct.
Item(i, e) == [filename |-> Names[i], data |-> e]

Configurations ==
    {<<>>}
    \cup {<<Item(1, e)>> : e \in Entries}
    \cup UNION {{[i \in 1..k |-> Item(i, f[i])] : f \in [1..k -> Companions]} :
                   k \in 2..MaxEntries}

\* ------------------------------------------------------- VelociraptorPlot

\* The attribute f"{coordinate}_{suffix}".
Attr(coordinate, suffix) ==
    CASE suffix = "units" -> IF coordinate = "x" THEN "x_units" ELSE "y_units"
      [] suffix = "lim" -> IF coordinate = "x" THEN "x_lim" ELSE "y_lim"
      [] suffix = "log" -> IF coordinate = "x" THEN "x_log" ELSE "y_log"
      [] suffix = "bins" -> IF coordinate = "x" THEN "x_bins" ELSE "y_bins"
      [] suffix = "label_override" ->
            IF coordinate = "x" THEN "x_label_override" ELSE "y_label_override"
      [] suffix = "line" -> IF coordinate = "median" THEN "median_line" ELSE "mean_line"

setattr(self, name, value) == [self EXCEPT ![name] = value]

\* An exception: its class, what it is about, and the coordinate and the
\* configuration key its message names ("" when it names none).
Error(kind, what, coordinate, entry) ==
    [kind |-> kind, what |-> what, coordinate |-> coordinate, entry |-> entry]

NoError == Error("", "", "", "")

\* The outcome of a method: it returned, or it raised err.
Ok(self) == [ok |-> TRUE, self |-> self, err |-> NoError]

Raise(self, err) == [ok |-> FALSE, self |-> self, err |-> err]

\* The object at the start of __init__: no attribute is set but filename
\* and data.
NewPlot(filename, data) ==
    [filename |-> filename, data |-> data, plot_type |-> None,
     x |-> None, y |-> None, x_units |-> None, y_units |-> None,
     x_lim |-> None, y_lim |-> None, x_log |-> None, y_log |-> None,
     x_label_override |-> None, y_label_override |-> None,
     median_line |-> None, mean_line |-> None,
     number_of_bins |-> None, x_bins |-> None, y_bins |-> None]

\* Whether self.data[coordinate][key] exists.
HasKey(self, coordinate, key) ==
    IsSome(self.data[coordinate]) /\ IsSome(Get(self.data[coordinate])[key])

\* self.data[coordinate][key], when it exists.
Key(self, coordinate, key) == Get(Get(self.data[coordinate])[key])

\* Each method below takes the outcome r of the statements before its call
\* and gives the outcome after it: it runs, on r.self, only if none of them
\* raised, and else the exception r.err goes on.

parse_coordinate_quantity(r, coordinate) ==
    LET self == r.self
        err == Error("AutoPlotterError", "quantity and units", coordinate, self.filename)
        s1 == setattr(self, coordinate, Some(Key(self, coordinate, "quantity")))
    IN  IF ~r.ok THEN r
        ELSE IF ~HasKey(self, coordinate, "quantity") THEN Raise(self, err)
        ELSE IF ~HasKey(self, coordinate, "units") THEN Raise(s1, err)
        ELSE Ok(setattr(s1, Attr(coordinate, "units"),
                        Some(unyt_quantity(Float(1), Key(self, coordinate, "units")))))

\* A faulty variant of _set_coordinate_quantity_none: it keeps the quantity
\* the configuration gives for the coordinate.
set_coordinate_quantity_kept(r, coordinate) ==
    IF ~r.ok THEN r
    ELSE Ok(setattr(setattr(r.self, coordinate,
                            IF HasKey(r.self, coordinate, "quantity")
                            THEN Some(Key(r.self, coordinate, "quantity")) ELSE None),
                    Attr(coordinate, "units"),
                    Some(unyt_quantity(Float(1), "dimensionless"))))

set_coordinate_quantity_none(r, coordinate) ==
    IF ~r.ok THEN r
    ELSE Ok(setattr(setattr(r.self, coordinate, None),
                    Attr(coordinate, "units"),
                    Some(unyt_quantity(Float(1), "dimensionless"))))

\* One bound of a limit: a KeyError of the value or of the units leaves None.
LimitBound(self, coordinate, key) ==
    IF HasKey(self, coordinate, key) /\ HasKey(self, coordinate, "units")
    THEN Some(unyt_quantity(Float(Key(self, coordinate, key)), Key(self, coordinate, "units")))
    ELSE None

parse_coordinate_limit(r, coordinate) ==
    IF ~r.ok THEN r
    ELSE Ok(setattr(r.self, Attr(coordinate, "lim"),
                    Some(<<LimitBound(r.self, coordinate, "start"),
                           LimitBound(r.self, coordinate, "end")>>)))

\* A faulty variant of _parse_coordinate_log: the default is a linear axis.
parse_coordinate_log_linear(r, coordinate) ==
    IF ~r.ok THEN r
    ELSE Ok(setattr(r.self, Attr(coordinate, "log"),
                    IF HasKey(r.self, coordinate, "log")
                    THEN Some(bool(Key(r.self, coordinate, "log")))
                    ELSE Some(FALSE)))

parse_coordinate_log(r, coordinate) ==
    IF ~r.ok THEN r
    ELSE Ok(setattr(r.self, Attr(coordinate, "log"),
                    IF HasKey(r.self, coordinate, "log")
                    THEN Some(bool(Key(r.self, coordinate, "log")))
                    ELSE Some(TRUE)))

parse_coordinate_label_override(r, coordinate) ==
    IF ~r.ok THEN r
    ELSE Ok(setattr(r.self, Attr(coordinate, "label_override"),
                    IF HasKey(r.self, coordinate, "label_override")
                    THEN Some(Key(r.self, coordinate, "label_override"))
                    ELSE None))

\* VelociraptorLine(line_type, payload): the overlay descriptor.
VelociraptorLine(line_type, payload) == [line_type |-> line_type, payload |-> payload]

parse_line(r, line_type) ==
    IF ~r.ok THEN r
    ELSE Ok(setattr(r.self, Attr(line_type, "line"),
                    IF IsSome(r.self.data[line_type])
                    THEN Some(VelociraptorLine(line_type, Get(r.self.data[line_type])))
                    ELSE None))

parse_lines(r) == parse_line(parse_line(r, valid_line_types[1]), valid_line_types[2])

parse_number_of_bins(r) ==
    IF ~r.ok THEN r
    ELSE Ok(setattr(r.self, "number_of_bins",
                    IF IsSome(r.self.data.number_of_bins)
                    THEN Some(Get(r.self.data.number_of_bins))
                    ELSE Some(DefaultNumberOfBins)))

\* numpy raises TypeError when log10 or linspace is given None; its
\* message names neither the coordinate nor the entry.
parse_coordinate_histogram_bin(r, coordinate) ==
    LET self == r.self
        lim == Get(self[Attr(coordinate, "lim")])
        start == lim[1]
        end == lim[2]
        n == Get(self.number_of_bins)
    IN  IF ~r.ok THEN r
        ELSE IF ~IsSome(start) \/ ~IsSome(end)
        THEN Raise(self, Error("TypeError", "NoneType", "", ""))
        ELSE IF Get(self[Attr(coordinate, "log")])
        THEN Ok(setattr(self, Attr(coordinate, "bins"),
                        Some(unyt_array(logspace(Log10(Get(start).v), Log10(Get(end).v), n),
                                        Get(start).units))))
        ELSE Ok(setattr(self, Attr(coordinate, "bins"),
                        Some(unyt_array(linspace(Get(start).v, Get(end).v, n),
                                        Get(start).units))))

\* The body of the loop over the coordinates of _parse_scatter.
parse_scatter_coordinate(r, coordinate) ==
    parse_coordinate_label_override(
        parse_coordinate_limit(
            parse_coordinate_log(
                parse_coordinate_quantity(r, coordinate),
                coordinate),
            coordinate),
        coordinate)

parse_scatter(r) ==
    parse_lines(parse_scatter_coordinate(parse_scatter_coordinate(r, "x"), "y"))

parse_2dhistogram(r) ==
    parse_coordinate_histogram_bin(
        parse_coordinate_histogram_bin(
            parse_number_of_bins(parse_scatter(r)),
            "x"),
        "y")

\* The body of the loop over the coordinates of _parse_massfunction.
parse_massfunction_coordinate(r, coordinate) ==
    parse_coordinate_label_override(
        parse_coordinate_limit(
            parse_coordinate_log(r, coordinate),
            coordinate),
        coordinate)

parse_massfunction(r) ==
    parse_coordinate_histogram_bin(
        parse_number_of_bins(
            parse_massfunction_coordinate(
                parse_massfunction_coordinate(
                    set_coordinate_quantity_none(
                        parse_coordinate_quantity(r, "x"),
                        "y"),
                    "x"),
                "y")),
        "x")

parse_histogram(r) == parse_massfunction(r)

\* getattr(self, f"_parse_{self.plot_type}")().
parse_dispatch(r) ==
    CASE Get(r.self.plot_type) = "scatter" -> parse_scatter(r)
      [] Get(r.self.plot_type) = "2dhistogram" -> parse_2dhistogram(r)
      [] Get(r.self.plot_type) = "massfunction" -> parse_massfunction(r)
      [] Get(r.self.plot_type) = "histogram" -> parse_histogram(r)
      [] OTHER -> Raise(r.self, Error("AttributeError", "_parse_", "", ""))

\* Whether the plot type passes the test of _parse_data.
IsValidPlotType(plot_type) == plot_type \in SeqToSet(valid_plot_types)

parse_data(r) ==
    LET s1 == setattr(r.self, "plot_type",
                      IF IsSome(r.self.data.type) THEN r.self.data.type
                      ELSE Some("scatter"))
    IN  IF ~IsValidPlotType(Get(s1.plot_type))
        THEN Raise(s1, Error("AutoPlotterError", "plot type", "", ""))
        ELSE parse_dispatch(Ok(s1))

\* VelociraptorPlot(filename, data): the outcome of __init__.
VelociraptorPlot(filename, data) == parse_data(Ok(NewPlot(filename, data)))

\* convert_to_units of the bins of one coordinate to the units of
\* f"{target}_units", in place.
convert_bins(self, coordinate, target) ==
    setattr(self, Attr(coordinate, "bins"),
            Some(convert_to_units(Get(self[Attr(coordinate, "bins")]),
                                  Get(self[Attr(target, "units")]).units)))

\* What each _make_plot_{type} does to the descriptor.
make_plot_scatter(self) == self

\* A faulty variant of _make_plot_2dhistogram: the x bins are converted to
\* the units of y.
make_plot_2dhistogram_y_units(self) ==
    convert_bins(convert_bins(self, "x", "y"), "y", "y")

make_plot_2dhistogram(self) == convert_bins(convert_bins(self, "x", "x"), "y", "y")

make_plot_massfunction(self) == convert_bins(self, "x", "x")

\* getattr(self, f"_make_plot_{self.plot_type}")(catalogue=catalogue).
make_plot_dispatch(self) ==
    CASE Get(self.plot_type) = "scatter" -> Ok(make_plot_scatter(self))
      [] Get(self.plot_type) = "2dhistogram" -> Ok(make_plot_2dhistogram(self))
      [] Get(self.plot_type) = "massfunction" -> Ok(make_plot_massfunction(self))
      [] OTHER -> Raise(self, Error("AttributeError", "_make_plot_", "", ""))

\* A faulty variant of the path of a figure: the directory is left out.
FigurePathInCwd(directory, filename, file_extension) ==
    <<".", "/", filename, ".", file_extension>>

\* f"{directory}/{self.filename}.{file_extension}".
FigurePath(directory, filename, file_extension) ==
    <<directory, "/", filename, ".", file_extension>>

\* ------------------------------------------------------------ AutoPlotter

\* The list comprehension of parse_yaml: the descriptors in declaration
\* order, or the exception of the first entry whose construction raises.
RECURSIVE BuildPlots(_, _, _)
BuildPlots(items, i, built) ==
    IF i > Len(items) THEN [ok |-> TRUE, plots |-> built, err |-> NoError]
    ELSE LET r == VelociraptorPlot(items[i].filename, items[i].data)
         IN  IF r.ok THEN BuildPlots(items, i + 1, Append(built, r.self))
             ELSE [ok |-> FALSE, plots |-> <<>>, err |-> r.err]

\* A faulty variant of parse_yaml: an entry whose construction raises is
\* skipped and the others are kept.
RECURSIVE KeepPlots(_, _, _)
KeepPlots(items, i, built) ==
    IF i > Len(items) THEN [ok |-> TRUE, plots |-> built, err |-> NoError]
    ELSE LET r == VelociraptorPlot(items[i].filename, items[i].data)
         IN  KeepPlots(items, i + 1, IF r.ok THEN Append(built, r.self) ELSE built)

parse_yaml_skipping(items) == KeepPlots(items, 1, <<>>)

parse_yaml(items) == BuildPlots(items, 1, <<>>)

\* The arguments (directory, file_extension) of the create_plots calls:
\* the directory "." exists and "plots" does not, and file_extension
\* defaults to "pdf".
CallArguments == {<<".", "pdf">>, <<"plots", "pdf">>, <<"plots", "png">>}

\* What the collaborators of make_plot may raise: the catalogue while the
\* quantities are resolved (before the bins are converted), the plotting
\* library while the figure is drawn or saved (after).
ResolveError == Error("AttributeError", "catalogue", "", "")

SaveError == Error("OSError", "savefig", "", "")

VARIABLES
    yaml,       \* the configuration loaded by load_yaml
    pc,         \* "new", "failed" (the constructor raised), "idle", "rendering"
    plots,      \* self.plots
    catalogue,  \* self.catalogue
    raised,     \* the exception of the last call that raised
    outcome,    \* of the last create_plots: "none", "returned", "raised"
    dirs,       \* the directories that exist
    mkdirs,     \* the mkdir calls made, in order
    files,      \* the figure files that exist
    saved,      \* the savefig calls of the current create_plots, in order
    idx,        \* the position of the create_plots loop
    runs,       \* the number of create_plots calls made
    call        \* the arguments of the current create_plots

vars ==
    <<yaml, pc, plots, catalogue, raised, outcome, dirs, mkdirs, files, saved,
      idx, runs, call>>

Init ==
    /\ yaml \in Configurations
    /\ pc = "new"
    /\ plots = <<>>
    /\ catalogue = None
    /\ raised = NoError
    /\ outcome = "none"
    /\ dirs = {"."}
    /\ mkdirs = <<>>
    /\ files = {}
    /\ saved = <<>>
    /\ idx = 0
    /\ runs = 0
    /\ call = [directory |-> "", file_extension |-> ""]

\* AutoPlotter(filename): load_yaml, then parse_yaml.
Construct ==
    /\ pc = "new"
    /\ LET r == parse_yaml(yaml)
       IN  IF r.ok
           THEN /\ pc' = "idle"
                /\ plots' = r.plots
                /\ raised' = raised
           ELSE /\ pc' = "failed"
                /\ plots' = plots
                /\ raised' = r.err
    /\ UNCHANGED <<yaml, catalogue, outcome, dirs, mkdirs, files, saved, idx, runs, call>>

link_catalogue ==
    /\ pc = "idle"
    /\ catalogue = None
    /\ catalogue' = Some("catalogue")
    /\ UNCHANGED <<yaml, pc, plots, raised, outcome, dirs, mkdirs, files, saved,
                   idx, runs, call>>

\* create_plots up to its loop: the directory is made if it does not exist.
create_plots(directory, file_extension) ==
    /\ pc = "idle"
    /\ runs < MaxRuns
    /\ runs' = runs + 1
    /\ call' = [directory |-> directory, file_extension |-> file_extension]
    /\ IF directory \notin dirs
       THEN /\ dirs' = dirs \cup {directory}
            /\ mkdirs' = Append(mkdirs, directory)
       ELSE UNCHANGED <<dirs, mkdirs>>
    /\ saved' = <<>>
    /\ idx' = 1
    /\ outcome' = "none"
    /\ raised' = NoError
    /\ pc' = "rendering"
    /\ UNCHANGED <<yaml, plots, catalogue, files>>

\* One iteration of the loop of create_plots in which make_plot returns:
\* the descriptor's bins are converted and the figure is saved.
make_plot ==
    /\ pc = "rendering"
    /\ idx <= Len(plots)
    /\ IsSome(catalogue)
    /\ make_plot_dispatch(plots[idx]).ok
    /\ plots' = [plots EXCEPT ![idx] = make_plot_dispatch(plots[idx]).self]
    /\ LET path == FigurePath(call.directory, plots[idx].filename, call.file_extension)
       IN  /\ files' = files \cup {path}
           /\ saved' = Append(saved, path)
    /\ idx' = idx + 1
    /\ UNCHANGED <<yaml, pc, catalogue, raised, outcome, dirs, mkdirs, runs, call>>

\* A faulty variant of the loop of create_plots: the exception of make_plot
\* is caught and the loop goes on with the next descriptor.
make_plot_raises_swallowed ==
    /\ pc = "rendering"
    /\ idx <= Len(plots)
    /\ raised' = IF IsSome(catalogue) THEN SaveError
                 ELSE Error("AttributeError", "catalogue", "", "")
    /\ idx' = idx + 1
    /\ UNCHANGED <<yaml, pc, plots, catalogue, outcome, dirs, mkdirs, files, saved,
                   runs, call>>

\* One iteration in which make_plot raises: self.catalogue was never set,
\* or a collaborator raises.  The exception leaves create_plots.
make_plot_raises ==
    /\ pc = "rendering"
    /\ idx <= Len(plots)
    /\ IF ~IsSome(catalogue)
       THEN /\ raised' = Error("AttributeError", "catalogue", "", "")
            /\ plots' = plots
       ELSE \/ /\ raised' = ResolveError
               /\ plots' = plots
            \/ /\ raised' = IF make_plot_dispatch(plots[idx]).ok
                            THEN SaveError
                            ELSE make_plot_dispatch(plots[idx]).err
               /\ plots' = [plots EXCEPT ![idx] = make_plot_dispatch(plots[idx]).self]
    /\ pc' = "idle"
    /\ outcome' = "raised"
    /\ UNCHANGED <<yaml, catalogue, dirs, mkdirs, files, saved, idx, runs, call>>

\* The loop of create_plots is over and it returns.
create_plots_returns ==
    /\ pc = "rendering"
    /\ idx > Len(plots)
    /\ pc' = "idle"
    /\ outcome' = "returned"
    /\ UNCHANGED <<yaml, plots, catalogue, raised, dirs, mkdirs, files, saved,
                   idx, runs, call>>

Next ==
    \/ Construct
    \/ link_catalogue
    \/ \E arguments \in CallArguments : create_plots(arguments[1], arguments[2])
    \/ make_plot
    \/ make_plot_raises
    \/ create_plots_returns

Spec == Init /\ [][Next]_vars

\* ------------------------------------------------ what the claims speak of

\* The plot type an entry asks for.
TypeOf(e) == IF IsSome(e.type) THEN Get(e.type) ELSE "scatter"

\* Whether the entry's block of a coordinate gives the key.
Gives(e, c, key) == IsSome(e[c]) /\ IsSome(Get(e[c])[key])

Given(e, c, key) == Get(Get(e[c])[key])

\* The coordinates whose quantity a plot type needs, and those it bins.
RequiredAxes(t) == IF t \in {"scatter", "2dhistogram"} THEN {"x", "y"} ELSE {"x"}

BinnedAxes(t) ==
    IF t = "2dhistogram" THEN {"x", "y"}
    ELSE IF t \in {"massfunction", "histogram"} THEN {"x"}
    ELSE {}

LacksQuantity(e, c) == ~Gives(e, c, "quantity") \/ ~Gives(e, c, "units")

LacksLimit(e, c) == ~Gives(e, c, "start") \/ ~Gives(e, c, "end")

\* The truth value of a yaml scalar.
Truth(v) == CASE v = "true" -> TRUE [] v = "false" -> FALSE [] v = "0" -> FALSE

\* Whether the coordinate is log-scaled: the default is true.
LogScaled(e, c) == IF Gives(e, c, "log") THEN Truth(Given(e, c, "log")) ELSE TRUE

NonPositiveLogBound(e, c) ==
    LogScaled(e, c) /\ Gives(e, c, "start") /\ Given(e, c, "start") <= 0

\* An entry whose axes give every quantity its type needs.
QuantitiesGiven(e) == \A c \in RequiredAxes(TypeOf(e)) : ~LacksQuantity(e, c)

\* The entries whose construction raises, and the first of them.
Builds(item) == VelociraptorPlot(item.filename, item.data).ok

InvalidItems == {i \in DOMAIN yaml : ~Builds(yaml[i])}

FirstInvalid == CHOOSE i \in InvalidItems : \A j \in InvalidItems : i <= j

Constructed == pc \in {"idle", "rendering"}

\* ------------------------------------------------------------------- C1

\* C1: an entry of type histogram is accepted and builds the same x, x_units,
\* x_log, x_lim and x_bins as the same entry with type massfunction: whenever
\* the massfunction twin of a histogram entry builds, so does the entry.
C1_HistogramIsMassfunction ==
    (pc # "new" /\ Len(yaml) = 1 /\ TypeOf(yaml[1].data) = "histogram") =>
        LET twin == VelociraptorPlot(yaml[1].filename,
                        [yaml[1].data EXCEPT !.type = Some("massfunction")])
        IN  twin.ok =>
                /\ Constructed
                /\ plots[1].x = twin.self.x
                /\ plots[1].x_units = twin.self.x_units
                /\ plots[1].x_log = twin.self.x_log
                /\ plots[1].x_lim = twin.self.x_lim
                /\ plots[1].x_bins = twin.self.x_bins

\* ------------------------------------------------------------------- C2

\* The n + 1 edges from start to end the claim describes.
EdgesClaimed(e, c) ==
    LET n == IF IsSome(e.number_of_bins) THEN Get(e.number_of_bins)
             ELSE DefaultNumberOfBins
        start == Float(Given(e, c, "start"))
        end == Float(Given(e, c, "end"))
    IN  IF LogScaled(e, c) THEN logspace(Log10(start), Log10(end), n + 1)
        ELSE linspace(start, end, n + 1)

\* C2: the bin edges of a binned axis with start, end and n bins are the
\* n + 1 points from start to end, uniformly spaced on a linear axis and
\* geometrically on a log axis (with a positive start).
C2_BinEdges ==
    Constructed =>
        \A i \in DOMAIN plots : \A c \in BinnedAxes(Get(plots[i].plot_type)) :
            LET e == yaml[i].data
                values == Get(plots[i][Attr(c, "bins")]).values
            IN  ~NonPositiveLogBound(e, c) =>
                    /\ Len(values) = Get(plots[i].number_of_bins) + 1
                    /\ values[1] = Float(Given(e, c, "start"))
                    /\ values[Len(values)] = Float(Given(e, c, "end"))
                    /\ values = EdgesClaimed(e, c)

\* ------------------------------------------------------------------- C3

\* C3 as stated: of two entries, one valid and one not, in either order,
\* the valid one's descriptor is built and exactly the other's failure is
\* reported, under its configuration key.
C3_EntriesIndependent ==
    (pc # "new" /\ Len(yaml) = 2 /\ Cardinality(InvalidItems) = 1) =>
        LET bad == FirstInvalid
            good == 3 - bad
        IN  /\ \E k \in DOMAIN plots : plots[k].filename = yaml[good].filename
            /\ raised = VelociraptorPlot(yaml[bad].filename, yaml[bad].data).err
            /\ raised.what = "quantity and units" => raised.entry = yaml[bad].filename

\* C3 amended: parsing stops at the first entry whose construction raises.
\* Its exception leaves the constructor (naming the entry's key when a
\* quantity or units is missing) and no descriptor is kept, also not of
\* the valid entries; when every entry builds there is one descriptor per
\* entry in declaration order.  (Stated of the AutoPlotter as its
\* constructor leaves it, before any call of create_plots.)
C3_FailFast ==
    (pc # "new" /\ runs = 0) =>
        IF InvalidItems # {}
        THEN /\ pc = "failed"
             /\ plots = <<>>
             /\ raised = VelociraptorPlot(yaml[FirstInvalid].filename,
                                          yaml[FirstInvalid].data).err
             /\ raised.what = "quantity and units" =>
                    raised.entry = yaml[FirstInvalid].filename
        ELSE /\ Constructed
             /\ Len(plots) = Len(yaml)
             /\ \A i \in DOMAIN plots : plots[i].filename = yaml[i].filename

\* A valid entry followed by one without an x quantity: the second one's
\* error is raised and the first one's descriptor is gone.
C3_Witness ==
    /\ pc = "failed"
    /\ Len(yaml) = 2
    /\ InvalidItems = {2}
    /\ LacksQuantity(yaml[2].data, "x")
    /\ raised.entry = yaml[2].filename
    /\ plots = <<>>

\* ------------------------------------------------------------------- C4

\* An entry that is malformed in one of the ways the claim lists.
Malformed(e) ==
    \/ TypeOf(e) \notin PlotTypes
    \/ \E c \in RequiredAxes(TypeOf(e)) : LacksQuantity(e, c)
    \/ \E c \in BinnedAxes(TypeOf(e)) : LacksLimit(e, c) \/ NonPositiveLogBound(e, c)

\* C4: if any entry of the configuration is malformed, no output directory
\* is created and no figure file is written.
C4_NoOutputWhenMalformed ==
    (\E i \in DOMAIN yaml : Malformed(yaml[i].data)) =>
        mkdirs = <<>> /\ files = {}

\* ------------------------------------------------------------------- C5

\* C5: a binned plot whose binned axis lacks start or end fails at
\* construction with the autoplotter's own error, naming the entry.
C5_IncompleteBinRange ==
    (/\ pc # "new"
     /\ Len(yaml) = 1
     /\ TypeOf(yaml[1].data) \in {"2dhistogram", "massfunction"}
     /\ QuantitiesGiven(yaml[1].data)
     /\ \E c \in BinnedAxes(TypeOf(yaml[1].data)) : LacksLimit(yaml[1].data, c)) =>
        /\ pc = "failed"
        /\ raised.kind = "AutoPlotterError"
        /\ raised.entry = yaml[1].filename

\* ------------------------------------------------------------------- C6

\* C6: bin construction on a log-scaled axis whose start is not positive
\* fails: no bin edges are produced for it.
C6_NonPositiveLogBound ==
    (/\ pc # "new"
     /\ Len(yaml) = 1
     /\ TypeOf(yaml[1].data) \in {"2dhistogram", "massfunction"}
     /\ QuantitiesGiven(yaml[1].data)
     /\ \A c \in BinnedAxes(TypeOf(yaml[1].data)) : ~LacksLimit(yaml[1].data, c)
     /\ \E c \in BinnedAxes(TypeOf(yaml[1].data)) : NonPositiveLogBound(yaml[1].data, c)) =>
        /\ pc = "failed"
        /\ plots = <<>>

\* ------------------------------------------------------------------- C7

\* The first coordinate, in parsing order, whose quantity or units the
\* entry lacks.
FirstLacking(e) == IF LacksQuantity(e, "x") THEN "x" ELSE "y"

\* C7: a scatter or 2D-histogram entry that lacks quantity or units on x or
\* on y fails construction with an error that names the coordinate and the
\* entry; a mass-function entry needs the x quantity only (it fails that way
\* only for x) and, once built, has y = None with the dimensionless unit,
\* whatever its y block holds.
C7_RequiredQuantities ==
    (pc # "new" /\ Len(yaml) >= 1) =>
        LET e == yaml[1].data
            failsOn(c) == /\ pc = "failed"
                          /\ raised = Error("AutoPlotterError", "quantity and units",
                                            c, yaml[1].filename)
        IN  /\ (TypeOf(e) \in {"scatter", "2dhistogram"} /\ ~QuantitiesGiven(e)) =>
                    failsOn(FirstLacking(e))
            /\ (TypeOf(e) = "massfunction" /\ LacksQuantity(e, "x")) => failsOn("x")
            /\ (TypeOf(e) = "massfunction" /\ ~LacksQuantity(e, "x")) =>
                    /\ ~(raised.what = "quantity and units"
                           /\ raised.entry = yaml[1].filename)
                    /\ Constructed =>
                          /\ plots[1].y = None
                          /\ plots[1].y_units = Some(unyt_quantity(Float(1), "dimensionless"))
                          /\ plots[1].x = Some(Given(e, "x", "quantity"))

\* A mass function whose y block gives a quantity and units has been built
\* with the degenerate y axis.
C7_Witness ==
    /\ Constructed
    /\ Len(yaml) = 1
    /\ TypeOf(yaml[1].data) = "massfunction"
    /\ ~LacksQuantity(yaml[1].data, "y")
    /\ plots[1].y = None

\* ------------------------------------------------------------------- C8

\* C8: without type the plot is a scatter plot, without log an axis is
\* log-scaled (both axes of every plot type), without number_of_bins a binned
\* plot has 128 bins; a key that is present decides instead.
C8_Defaults ==
    Constructed =>
        \A i \in DOMAIN plots :
            LET e == yaml[i].data
                p == plots[i]
            IN  /\ p.plot_type = IF IsSome(e.type) THEN e.type ELSE Some("scatter")
                /\ \A c \in {"x", "y"} :
                      p[Attr(c, "log")] =
                          IF Gives(e, c, "log") THEN Some(Truth(Given(e, c, "log")))
                          ELSE Some(TRUE)
                /\ Get(p.plot_type) \in BinnedTypes =>
                      p.number_of_bins =
                          IF IsSome(e.number_of_bins) THEN e.number_of_bins
                          ELSE Some(128)

\* A mass function without a y block and without number_of_bins has been
\* built: its synthesized y axis is log-scaled and it has 128 bins.
C8_Witness ==
    /\ Constructed
    /\ Len(yaml) = 1
    /\ yaml[1].data.type = Some("massfunction")
    /\ yaml[1].data.y = None
    /\ yaml[1].data.number_of_bins = None
    /\ plots[1].y_log = Some(TRUE)
    /\ plots[1].number_of_bins = Some(128)
    /\ Len(Get(plots[1].x_bins).values) = 128

\* ------------------------------------------------------------------- C9

\* C9: once create_plots has returned, the directory exists and the figures
\* saved are exactly {directory}/{name}.{extension} for the descriptors in
\* declaration order, each once; while it runs, the figures saved so far are
\* those of the descriptors before the current one; mkdir is only ever called
\* for a directory that did not exist.
C9_OneFigurePerDescriptor ==
    LET path(i) == <<call.directory, "/", yaml[i].filename, ".", call.file_extension>>
    IN  /\ (pc = "idle" /\ outcome = "returned") =>
              /\ call.directory \in dirs
              /\ Len(saved) = Len(yaml)
              /\ \A i \in DOMAIN saved : saved[i] = path(i) /\ saved[i] \in files
        /\ pc = "rendering" =>
              /\ Len(saved) = idx - 1
              /\ \A i \in DOMAIN saved : saved[i] = path(i)
        /\ \A i \in DOMAIN mkdirs :
              /\ mkdirs[i] # "."
              /\ \A j \in DOMAIN mkdirs : mkdirs[i] = mkdirs[j] => i = j

\* create_plots has returned for two descriptors, for the second time into
\* the directory that the first call made.
C9_Witness ==
    /\ pc = "idle"
    /\ outcome = "returned"
    /\ Len(plots) = 2
    /\ runs = 2
    /\ call.directory = "plots"
    /\ mkdirs = <<"plots">>
    /\ Len(saved) = 2

\* ------------------------------------------------------------------ C10

\* C10: once built, a descriptor never changes: no step after construction
\* changes any field of any descriptor, however often it is rendered.
C10_DescriptorsImmutable == [][pc # "new" => plots' = plots]_vars

\* A 2D histogram has been rendered twice, by two calls of create_plots
\* that returned.
C10_Witness ==
    /\ pc = "idle"
    /\ outcome = "returned"
    /\ runs = 2
    /\ Len(plots) >= 1
    /\ plots[1].plot_type = Some("2dhistogram")
    /\ Len(saved) = Len(plots)

\* ------------------------------------------------------------------ C11

\* What make_plot can raise: the error of a collaborator, or the
\* AttributeError of a catalogue that was never linked.
RenderErrors == {ResolveError, SaveError, Error("AttributeError", "catalogue", "", "")}

\* The state in which create_plots has been left by an exception.
RenderFailed == pc = "idle" /\ outcome = "raised"

\* C11: a failure while rendering a descriptor ends create_plots.  The step
\* in which make_plot raises leaves the call at once (no retry, no later
\* descriptor), saving and removing nothing; afterwards the error is the
\* one that was raised, the figures saved by the call are exactly those of
\* the descriptors declared before the failing one, in order, and they are
\* in the output directory; no step ever removes a figure.
C11_RenderFailureIsFatal ==
    /\ [](RenderFailed =>
            /\ idx \in DOMAIN plots
            /\ raised \in RenderErrors
            /\ Len(saved) = idx - 1
            /\ \A i \in DOMAIN saved :
                  /\ saved[i] = FigurePath(call.directory, yaml[i].filename,
                                           call.file_extension)
                  /\ saved[i] \in files
            /\ \A i \in idx..Len(plots) :
                  \A k \in DOMAIN saved : saved[k][3] # yaml[i].filename)
    /\ [][(pc = "rendering" /\ raised' # raised) =>
            /\ pc' = "idle"
            /\ outcome' = "raised"
            /\ idx' = idx
            /\ saved' = saved
            /\ files' = files]_vars
    /\ [][files \subseteq files']_vars

\* The second of two descriptors failed to save: create_plots was left with
\* the first one's figure saved and in the directory.
C11_Witness ==
    /\ RenderFailed
    /\ Len(plots) = 2
    /\ idx = 2
    /\ raised = SaveError
    /\ Len(saved) = 1
    /\ saved[1] \in files
    /\ saved[1][3] = yaml[1].filename

====
